---- MODULE Spec2Model ----
(***************************************************************************)
(* Model of src/src/utils/logging.py: setup_logging, get_logger and the    *)
(* log_function_call decorator, together with the parts of the standard    *)
(* logging facility and of the file system that these three functions      *)
(* act on (root logger level and handlers, the logger registry, the        *)
(* directories and files that exist, the lines written to the sinks).      *)
(*                                                                         *)
(* Strings that the code inspects character by character (level names,     *)
(* logger names) are sequences of one-character strings.  File paths are   *)
(* sequences of path components; the empty string is the empty sequence.   *)
(* An Optional[str] argument is a record [isNone, val].                    *)
(***************************************************************************)
EXTENDS Integers, Sequences, FiniteSets, TLC

VARIABLES
    rootLevel,      \* logging.root.level
    rootHandlers,   \* logging.root.handlers, a sequence of handler records
    loggerDict,     \* logging.Logger.manager.loggerDict: name -> Logger or PlaceHolder
    fileOut,        \* the file system's files: path -> lines appended by file sinks
    dirs,           \* the file system's directories
    console,        \* lines written to sys.stderr by stream sinks
    pc,             \* "idle", or "in_func" while a wrapped function is running
    cur,            \* the wrapped function of the current (or last) wrapper call
    calls,          \* the logger.info / logger.error calls of that wrapper call
    mark,           \* Len(console) when that wrapper call began
    result,         \* how the last wrapper call ended
    nWrap,          \* number of wrapper calls begun
    configured,     \* whether a setup_logging call has returned
    lastSetup,      \* the last setup_logging call: arguments and outcome
    lastGet         \* the last get_logger call: argument and returned logger

vars == <<rootLevel, rootHandlers, loggerDict, fileOut, dirs, console, pc, cur,
          calls, mark, result, nWrap, configured, lastSetup, lastGet>>

-----------------------------------------------------------------------------
(* Bounds of the model *)

MaxWrapperCalls == 2

-----------------------------------------------------------------------------
(* Optional values *)

None == [isNone |-> TRUE, val |-> <<>>]

Some(v) == [isNone |-> FALSE, val |-> v]

-----------------------------------------------------------------------------
(* The numeric levels of the logging module *)

NOTSET == 0

DEBUG == 10

INFO == 20

WARNING == 30

ERROR == 40

CRITICAL == 50

(* str.upper() on the characters the level names use *)
LowerChars == <<"a","b","c","d","e","f","g","h","i","j","k","l","m",
                "n","o","p","q","r","s","t","u","v","w","x","y","z">>

UpperChars == <<"A","B","C","D","E","F","G","H","I","J","K","L","M",
                "N","O","P","Q","R","S","T","U","V","W","X","Y","Z">>

UpperChar(c) ==
    IF \E i \in DOMAIN LowerChars : LowerChars[i] = c
    THEN UpperChars[CHOOSE i \in DOMAIN LowerChars : LowerChars[i] = c]
    ELSE c

Upper(s) == [i \in DOMAIN s |-> UpperChar(s[i])]

(* The upper-case attributes of the logging module that getattr can find:  *)
(* the five levels, their aliases WARN and FATAL, NOTSET, and BASIC_FORMAT *)
(* (a format string, not a level).                                         *)
LoggingAttrs ==
    ( <<"D","E","B","U","G">>                 :> [isInt |-> TRUE, int |-> DEBUG] ) @@
    ( <<"I","N","F","O">>                     :> [isInt |-> TRUE, int |-> INFO] ) @@
    ( <<"W","A","R","N","I","N","G">>         :> [isInt |-> TRUE, int |-> WARNING] ) @@
    ( <<"W","A","R","N">>                     :> [isInt |-> TRUE, int |-> WARNING] ) @@
    ( <<"E","R","R","O","R">>                 :> [isInt |-> TRUE, int |-> ERROR] ) @@
    ( <<"C","R","I","T","I","C","A","L">>     :> [isInt |-> TRUE, int |-> CRITICAL] ) @@
    ( <<"F","A","T","A","L">>                 :> [isInt |-> TRUE, int |-> CRITICAL] ) @@
    ( <<"N","O","T","S","E","T">>             :> [isInt |-> TRUE, int |-> NOTSET] ) @@
    ( <<"B","A","S","I","C","_","F","O","R","M","A","T">>
                                              :> [isInt |-> FALSE, int |-> -1] )

(* Variant: getattr with a default, getattr(logging, name, logging.INFO) *)
GetAttrDefault(name) ==
    IF name \in DOMAIN LoggingAttrs
    THEN [found |-> TRUE, isInt |-> LoggingAttrs[name].isInt, int |-> LoggingAttrs[name].int]
    ELSE [found |-> TRUE, isInt |-> TRUE, int |-> INFO]

(* getattr(logging, name): found, or AttributeError *)
GetAttr(name) ==
    IF name \in DOMAIN LoggingAttrs
    THEN [found |-> TRUE, isInt |-> LoggingAttrs[name].isInt, int |-> LoggingAttrs[name].int]
    ELSE [found |-> FALSE, isInt |-> FALSE, int |-> -1]

(* Variant: the level name looked up as given, without upper() *)
LevelArgAsGiven(log_level) == GetAttr(log_level)

(* getattr(logging, log_level.upper()) *)
LevelArg(log_level) == GetAttr(Upper(log_level))

-----------------------------------------------------------------------------
(* Format strings: a sequence of tokens, each a %(field)s or literal text *)

FormatFields == {"%(asctime)s", "%(name)s", "%(levelname)s", "%(message)s"}

DefaultFormat ==
    <<"%(asctime)s", " - ", "%(name)s", " - ", "%(levelname)s", " - ", "%(message)s">>

(* if log_format is None: log_format = <default> *)
ResolveFormat(log_format) ==
    IF log_format.isNone THEN DefaultFormat ELSE log_format.val

(* logging.Formatter(fs) validates that the %-style string names a field *)
ValidFormat(fs) == \E i \in DOMAIN fs : fs[i] \in FormatFields

LastResortFormat == <<"%(message)s">>

-----------------------------------------------------------------------------
(* Paths and the file system *)

ModuleFile == <<"proj", "src", "utils", "logging.py">>

PathParent(p) == IF Len(p) = 0 THEN p ELSE SubSeq(p, 1, Len(p) - 1)

(* Path(__file__).parent.parent.parent / "logs" *)
LogsDir == Append(PathParent(PathParent(PathParent(ModuleFile))), "logs")

(* str(logs_dir / "supermarket_sales.log") *)
DefaultLogFile == Append(LogsDir, "supermarket_sales.log")

(* Path.mkdir(parents=True, exist_ok=True) *)
Mkdir(ds, p) == ds \cup {SubSeq(p, 1, k) : k \in 0..Len(p)}

(* lines 32-35: the file path after the default is filled in, and the *)
(* directories after logs_dir.mkdir                                   *)
ResolveLogFile(log_file) == IF log_file.isNone THEN DefaultLogFile ELSE log_file.val

DirsAfterResolve(ds, log_file) == IF log_file.isNone THEN Mkdir(ds, LogsDir) ELSE ds

(* lines 38-40: if log_file: Path(log_file).parent.mkdir(...) *)
DirsAfterParent(ds, path) == IF path # <<>> THEN Mkdir(ds, PathParent(path)) ELSE ds

(* open(path, "a"): the file exists afterwards, its content kept *)
OpenAppend(fo, path) == IF path \in DOMAIN fo THEN fo ELSE fo @@ (path :> <<>>)

-----------------------------------------------------------------------------
(* Handlers *)

StreamHandler == [kind |-> "stream", path |-> <<>>, fmt |-> <<>>]

FileHandler(path) == [kind |-> "file", path |-> path, fmt |-> <<>>]

NullHandler == [kind |-> "null", path |-> <<>>, fmt |-> <<>>]

(* Variant: console only when no path was given, as the docstring has it *)
MakeHandlersNoFile(path) == <<StreamHandler, NullHandler>>

(* line 46-49: the handlers list; FileHandler(log_file) if log_file else NullHandler() *)
MakeHandlers(path) ==
    <<StreamHandler, IF path # <<>> THEN FileHandler(path) ELSE NullHandler>>

(* Variant: a FileHandler that opens its file at the first record (delay=True) *)
FilesAfterHandlersDelayed(fo, path) == fo

(* line 48: constructing the FileHandler opens the file *)
FilesAfterHandlers(fo, path) == IF path # <<>> THEN OpenAppend(fo, path) ELSE fo

(* Variant: basicConfig(force=True), which replaces the handlers each time *)
BasicConfigForce(hs, lvl, level, fs, handlers) ==
    IF ~ValidFormat(fs)
    THEN [handlers |-> <<>>, level |-> lvl, outcome |-> "ValueError"]
    ELSE LET installed == [i \in DOMAIN handlers |-> [handlers[i] EXCEPT !.fmt = fs]]
         IN  IF level.isInt
             THEN [handlers |-> installed, level |-> level.int, outcome |-> "returned"]
             ELSE [handlers |-> installed, level |-> lvl, outcome |-> "ValueError"]

(* logging.basicConfig(level=, format=, handlers=): does nothing when the  *)
(* root logger already has handlers; otherwise builds the Formatter (which *)
(* rejects an invalid format), adds the handlers, then sets the level      *)
(* (which rejects a level that is not an integer or a level name).         *)
BasicConfig(hs, lvl, level, fs, handlers) ==
    IF Len(hs) # 0
    THEN [handlers |-> hs, level |-> lvl, outcome |-> "returned"]
    ELSE IF ~ValidFormat(fs)
    THEN [handlers |-> hs, level |-> lvl, outcome |-> "ValueError"]
    ELSE LET installed == [i \in DOMAIN handlers |-> [handlers[i] EXCEPT !.fmt = fs]]
         IN  IF level.isInt
             THEN [handlers |-> installed, level |-> level.int, outcome |-> "returned"]
             ELSE [handlers |-> installed, level |-> lvl, outcome |-> "ValueError"]

-----------------------------------------------------------------------------
(* The logger registry (logging.Manager) *)

ROOT == <<>>

RootName == <<"r","o","o","t">>

Logger(parent) == [isLogger |-> TRUE, parent |-> parent, loggerMap |-> {}, level |-> NOTSET]

PlaceHolder(children) ==
    [isLogger |-> FALSE, parent |-> ROOT, loggerMap |-> children, level |-> NOTSET]

(* name.rfind(".", 0, hi): the largest 0-based index below hi holding a dot, or -1 *)
RFind(name, hi) ==
    LET hits == {p \in 0..(hi - 1) : p + 1 <= Len(name) /\ name[p + 1] = "."}
    IN  IF hits = {} THEN -1 ELSE CHOOSE p \in hits : \A q \in hits : q <= p

(* The loop of Manager._fixupParents: a placeholder is left at every dotted *)
(* prefix visited, until a prefix that is a Logger is found.                *)
RECURSIVE FixupLoop(_, _, _)
FixupLoop(dict, name, i) ==
    IF i <= 0
    THEN [dict |-> dict, rv |-> ROOT]
    ELSE LET substr == SubSeq(name, 1, i)
         IN  IF substr \notin DOMAIN dict
             THEN FixupLoop(dict @@ (substr :> PlaceHolder({name})), name, RFind(name, i - 1))
             ELSE IF dict[substr].isLogger
             THEN [dict |-> dict, rv |-> substr]
             ELSE FixupLoop([dict EXCEPT ![substr].loggerMap = @ \cup {name}],
                            name, RFind(name, i - 1))

(* Manager._fixupParents(alogger) *)
FixupParents(dict, name) ==
    LET r == FixupLoop(dict, name, RFind(name, Len(name)))
    IN  [r.dict EXCEPT ![name].parent = r.rv]

NameOf(l) == IF l = ROOT THEN RootName ELSE l

StrPrefix(s, n) == SubSeq(s, 1, IF n < Len(s) THEN n ELSE Len(s))

(* Manager._fixupChildren(ph, alogger) *)
FixupChildren(dict, children, name) ==
    [n \in DOMAIN dict |->
        IF n \in children /\ StrPrefix(NameOf(dict[n].parent), Len(name)) # name
        THEN [dict[n] EXCEPT !.parent = name]
        ELSE dict[n]]

(* logging.getLogger(name): the registry afterwards *)
GetLoggerDict(dict, name) ==
    IF name \in DOMAIN dict
    THEN IF dict[name].isLogger
         THEN dict
         ELSE LET ph    == dict[name]
                  made  == [dict EXCEPT ![name] = Logger(ROOT)]
              IN  FixupParents(FixupChildren(made, ph.loggerMap, name), name)
    ELSE FixupParents(dict @@ (name :> Logger(ROOT)), name)

(* Logger.getEffectiveLevel() *)
RECURSIVE EffectiveLevel(_, _, _)
EffectiveLevel(dict, lvl, name) ==
    IF name = ROOT
    THEN lvl
    ELSE IF dict[name].level # NOTSET
    THEN dict[name].level
    ELSE EffectiveLevel(dict, lvl, dict[name].parent)

(* Variant: a strict comparison in isEnabledFor *)
IsEnabledForStrict(dict, lvl, name, levelno) == levelno > EffectiveLevel(dict, lvl, name)

(* Logger.isEnabledFor(levelno) *)
IsEnabledFor(dict, lvl, name, levelno) == levelno >= EffectiveLevel(dict, lvl, name)

(* The loggers on the parent chain of a logger, itself included *)
RECURSIVE Ancestors(_, _)
Ancestors(dict, name) ==
    IF name = ROOT THEN {ROOT} ELSE {name} \cup Ancestors(dict, dict[name].parent)

-----------------------------------------------------------------------------
(* Emitting a record: Logger.callHandlers.  Only the root logger has       *)
(* handlers; when it has none, the last-resort handler (level WARNING,     *)
(* stderr) is used.                                                        *)

Line(name, levelno, msg, fmt) == [name |-> name, levelno |-> levelno, msg |-> msg, fmt |-> fmt]

ConsoleAfter(con, hs, name, levelno, msg) ==
    IF Len(hs) = 0
    THEN IF levelno >= WARNING
         THEN Append(con, Line(name, levelno, msg, LastResortFormat))
         ELSE con
    ELSE LET streams == SelectSeq(hs, LAMBDA h : h.kind = "stream")
         IN  con \o [i \in DOMAIN streams |-> Line(name, levelno, msg, streams[i].fmt)]

FilesAfter(fo, hs, name, levelno, msg) ==
    [p \in DOMAIN fo |->
        LET sinks == SelectSeq(hs, LAMBDA h : h.kind = "file" /\ h.path = p)
        IN  fo[p] \o [i \in DOMAIN sinks |-> Line(name, levelno, msg, sinks[i].fmt)]]

-----------------------------------------------------------------------------
(* Names *)

SupermarketSales == <<"s","u","p","e","r","m","a","r","k","e","t","_","s","a","l","e","s">>

(* Variant: the prefix joined without the dot *)
LoggerNameNoDot(name) == SupermarketSales \o name

(* f"supermarket_sales.{name}" *)
LoggerName(name) == SupermarketSales \o <<".">> \o name

-----------------------------------------------------------------------------
(* Inputs *)

LevelNames ==
    { <<"D","E","B","U","G">>, <<"i","n","f","o">>, <<"W","a","r","n","i","n","g">>,
      <<"E","R","R","O","R">>, <<"c","r","i","t","i","c","a","l">>,
      <<"w","a","r","n">>, <<"N","O","T","S","E","T">>,
      <<"b","a","s","i","c","_","f","o","r","m","a","t">>,
      <<"T","R","A","C","E">> }

FiveLevels ==
    { <<"D","E","B","U","G">>, <<"I","N","F","O">>, <<"W","A","R","N","I","N","G">>,
      <<"E","R","R","O","R">>, <<"C","R","I","T","I","C","A","L">> }

FewLevels == { <<"I","N","F","O">>, <<"E","R","R","O","R">> }

CustomLogFile == <<"var", "log", "app.log">>

LogFiles == {None, Some(<<>>), Some(CustomLogFile)}

CustomFormat == <<"%(levelname)s", ":", "%(message)s">>

PlainFormat == <<"plain">>

LogFormats == {None, Some(CustomFormat), Some(PlainFormat)}

ComponentNames == { <<>>, <<"e","t","l">>, <<"a",".","b">>, <<".","x">> }

ValueError == [cls |-> "ValueError", isException |-> TRUE, msg |-> "boom", id |-> 1]

KeyboardInterrupt == [cls |-> "KeyboardInterrupt", isException |-> FALSE, msg |-> "stop", id |-> 2]

NoExc == [cls |-> "", isException |-> FALSE, msg |-> "", id |-> 0]

Returns(v) == [kind |-> "return", value |-> v, exc |-> NoExc]

Raises(e) == [kind |-> "raise", value |-> "", exc |-> e]

Func(module, name, body) == [module |-> module, name |-> name, body |-> body]

Funcs ==
    { Func(<<"e","t","l">>, "load", Returns("V")),
      Func(<<"e","t","l">>, "parse", Raises(ValueError)),
      Func(<<"a",".","b">>, "main", Raises(KeyboardInterrupt)) }

-----------------------------------------------------------------------------
(* Initial state: a fresh process.  The logs directory and the default log *)
(* file may be left over from an earlier run.                              *)

BaseDirs == {SubSeq(ModuleFile, 1, k) : k \in 0..(Len(ModuleFile) - 1)}

NoSetup ==
    [called |-> FALSE, log_level |-> <<>>, log_file |-> None, log_format |-> None,
     outcome |-> "", logger |-> ROOT, hadHandlers |-> FALSE,
     hadFile |-> FALSE, hadDir |-> FALSE, wasConfigured |-> FALSE,
     before |-> [handlers |-> <<>>, level |-> WARNING]]

NoGet == [called |-> FALSE, name |-> <<>>, logger |-> ROOT]

NoFunc == Func(<<>>, "", Returns(""))

NoResult == [kind |-> "none", value |-> "", exc |-> NoExc]

Init ==
    /\ rootLevel = WARNING
    /\ rootHandlers = <<>>
    /\ loggerDict = <<>>
    /\ \E leftover \in {"nothing", "dir", "file"} :
          /\ dirs = IF leftover = "nothing" THEN BaseDirs ELSE Mkdir(BaseDirs, LogsDir)
          /\ fileOut = IF leftover = "file" THEN (DefaultLogFile :> <<>>) ELSE <<>>
    /\ console = <<>>
    /\ pc = "idle"
    /\ cur = NoFunc
    /\ calls = <<>>
    /\ mark = 0
    /\ result = NoResult
    /\ nWrap = 0
    /\ configured = FALSE
    /\ lastSetup = NoSetup
    /\ lastGet = NoGet

-----------------------------------------------------------------------------
(* setup_logging(log_level, log_file, log_format), lines 10-55 *)

SetupLogging(log_level, log_file, log_format) ==
    LET fs       == ResolveFormat(log_format)
        path     == ResolveLogFile(log_file)
        dirs1    == DirsAfterParent(DirsAfterResolve(dirs, log_file), path)
        level    == LevelArg(log_level)
        handlers == MakeHandlers(path)
        cfg      == BasicConfig(rootHandlers, rootLevel, level, fs, handlers)
        called   == [called |-> TRUE, log_level |-> log_level, log_file |-> log_file,
                     log_format |-> log_format, outcome |-> "", logger |-> ROOT,
                     hadHandlers |-> Len(rootHandlers) # 0,
                     hadFile |-> DefaultLogFile \in DOMAIN fileOut,
                     hadDir |-> LogsDir \in dirs,
                     wasConfigured |-> configured,
                     before |-> [handlers |-> rootHandlers, level |-> rootLevel]]
    IN  /\ dirs' = dirs1
        /\ IF ~level.found
           THEN /\ lastSetup' = [called EXCEPT !.outcome = "AttributeError"]
                /\ UNCHANGED <<rootLevel, rootHandlers, loggerDict, fileOut, configured>>
           ELSE /\ fileOut' = FilesAfterHandlers(fileOut, path)
                /\ rootHandlers' = cfg.handlers
                /\ rootLevel' = cfg.level
                /\ IF cfg.outcome = "returned"
                   THEN /\ configured' = TRUE
                        /\ loggerDict' = GetLoggerDict(loggerDict, SupermarketSales)
                        /\ lastSetup' = [called EXCEPT !.outcome = "returned",
                                                       !.logger = SupermarketSales]
                   ELSE /\ UNCHANGED <<loggerDict, configured>>
                        /\ lastSetup' = [called EXCEPT !.outcome = cfg.outcome]
        /\ UNCHANGED <<console, pc, cur, calls, mark, result, nWrap, lastGet>>

(* get_logger(name), lines 57-67 *)
GetLogger(name) ==
    /\ loggerDict' = GetLoggerDict(loggerDict, LoggerName(name))
    /\ lastGet' = [called |-> TRUE, name |-> name, logger |-> LoggerName(name)]
    /\ UNCHANGED <<rootLevel, rootHandlers, fileOut, dirs, console, pc, cur, calls,
                   mark, result, nWrap, configured, lastSetup>>

-----------------------------------------------------------------------------
(* log_function_call(func).wrapper, lines 73-82 *)

(* One logger.info / logger.error call: what was asked, and whether the   *)
(* logger was enabled for it when it was made.                            *)
LogCall(dict, lvl, name, levelno, msg) ==
    [name |-> name, levelno |-> levelno, msg |-> msg,
     enabled |-> IsEnabledFor(dict, lvl, name, levelno),
     effective |-> EffectiveLevel(dict, lvl, name)]

(* The sinks after logger.log(levelno, msg) on the named logger *)
LogConsole(dict, name, levelno, msg) ==
    IF IsEnabledFor(dict, rootLevel, name, levelno)
    THEN ConsoleAfter(console, rootHandlers, name, levelno, msg)
    ELSE console

LogFileOut(dict, name, levelno, msg) ==
    IF IsEnabledFor(dict, rootLevel, name, levelno)
    THEN FilesAfter(fileOut, rootHandlers, name, levelno, msg)
    ELSE fileOut

CallingMsg(f) == <<"Calling function: ", f.name>>

CompletedMsg(f) == <<"Function ", f.name, " completed successfully">>

(* Variant: the failure message without the exception text *)
FailedMsgNoText(f, e) == <<"Function ", f.name, " failed">>

FailedMsg(f, e) == <<"Function ", f.name, " failed: ", e.msg>>

(* lines 74-75: logger = get_logger(func.__module__); logger.info(...);  *)
(* then func is entered                                                   *)
WrapperCall(f) ==
    LET name == LoggerName(f.module)
        dict == GetLoggerDict(loggerDict, name)
    IN  /\ pc = "idle"
        /\ nWrap < MaxWrapperCalls
        /\ nWrap' = nWrap + 1
        /\ loggerDict' = dict
        /\ cur' = f
        /\ mark' = Len(console)
        /\ calls' = <<LogCall(dict, rootLevel, name, INFO, CallingMsg(f))>>
        /\ console' = LogConsole(dict, name, INFO, CallingMsg(f))
        /\ fileOut' = LogFileOut(dict, name, INFO, CallingMsg(f))
        /\ result' = NoResult
        /\ pc' = "in_func"
        /\ UNCHANGED <<rootLevel, rootHandlers, dirs, configured, lastSetup, lastGet>>

(* lines 77-79: func returned; logger.info(...); return result *)
FuncReturns ==
    LET name == LoggerName(cur.module)
    IN  /\ pc = "in_func"
        /\ cur.body.kind = "return"
        /\ calls' = Append(calls, LogCall(loggerDict, rootLevel, name, INFO, CompletedMsg(cur)))
        /\ console' = LogConsole(loggerDict, name, INFO, CompletedMsg(cur))
        /\ fileOut' = LogFileOut(loggerDict, name, INFO, CompletedMsg(cur))
        /\ result' = [kind |-> "return", value |-> cur.body.value, exc |-> NoExc]
        /\ pc' = "idle"
        /\ UNCHANGED <<rootLevel, rootHandlers, loggerDict, dirs, cur, mark, nWrap,
                       configured, lastSetup, lastGet>>

(* lines 80-82: except Exception as e: logger.error(...); raise.  A raised *)
(* object that is not an Exception passes through the try statement.      *)
(* Variant: except BaseException *)
CaughtAny(e) == TRUE

Caught(e) == e.isException

FuncRaises ==
    LET name == LoggerName(cur.module)
        e    == cur.body.exc
    IN  /\ pc = "in_func"
        /\ cur.body.kind = "raise"
        /\ IF Caught(e)
           THEN /\ calls' = Append(calls, LogCall(loggerDict, rootLevel, name, ERROR, FailedMsg(cur, e)))
                /\ console' = LogConsole(loggerDict, name, ERROR, FailedMsg(cur, e))
                /\ fileOut' = LogFileOut(loggerDict, name, ERROR, FailedMsg(cur, e))
           ELSE UNCHANGED <<calls, console, fileOut>>
        /\ result' = [kind |-> "raise", value |-> "", exc |-> e]
        /\ pc' = "idle"
        /\ UNCHANGED <<rootLevel, rootHandlers, loggerDict, dirs, cur, mark, nWrap,
                       configured, lastSetup, lastGet>>

-----------------------------------------------------------------------------

(* The calls a program makes, over given sets of arguments *)
SetupStep(levels, paths, formats) ==
    \E l \in levels, f \in paths, fmt \in formats : SetupLogging(l, f, fmt)

GetLoggerStep == \E n \in ComponentNames : GetLogger(n)

WrapperStep == \E f \in Funcs : WrapperCall(f)

(* The whole program: every operation, setup_logging with a few arguments *)
Next ==
    \/ SetupStep(FewLevels, {Some(<<>>)}, {None})
    \/ GetLoggerStep
    \/ WrapperStep
    \/ FuncReturns
    \/ FuncRaises

Spec == Init /\ [][Next]_vars

(* setup_logging alone, over every combination of its arguments *)
NextSetup == SetupStep(LevelNames, LogFiles, LogFormats)

SpecSetup == Init /\ [][NextSetup]_vars

(* The wrapper under every logging configuration: setup_logging with each *)
(* of the five levels, with and without a file sink                       *)
NextTrace ==
    \/ SetupStep(FiveLevels, {None, Some(<<>>)}, {None})
    \/ WrapperStep
    \/ FuncReturns
    \/ FuncRaises

SpecTrace == Init /\ [][NextTrace]_vars

-----------------------------------------------------------------------------
(* Vocabulary of the properties *)

(* The lines written to the console since the current wrapper call began *)
LastLines == SubSeq(console, mark + 1, Len(console))

(* What a line or a logging call says, without the format or the level test *)
Said(x) == [name |-> x.name, levelno |-> x.levelno, msg |-> x.msg]

SaidAll(seq) == [i \in DOMAIN seq |-> Said(seq[i])]

Entry(f, levelno, msg) == [name |-> LoggerName(f.module), levelno |-> levelno, msg |-> msg]

Contains(msg, text) == \E k \in DOMAIN msg : msg[k] = text

(* A wrapper call has ended *)
Ended == pc = "idle" /\ result.kind # "none"

(* The lines the console got are those of the logging calls that were enabled *)
LinesAreEnabledCalls ==
    /\ SaidAll(LastLines) = SaidAll(SelectSeq(calls, LAMBDA c : c.enabled))
    /\ \A i \in DOMAIN calls : calls[i].enabled <=> calls[i].effective <= calls[i].levelno

(* The level a setup_logging call asked for, when its name is one of the five *)
IsFiveLevel(log_level) == Upper(log_level) \in FiveLevels

AskedLevel(log_level) == LoggingAttrs[Upper(log_level)].int

(* The sinks a setup_logging call asked for *)
AskedPath(st) == IF st.log_file.isNone THEN DefaultLogFile ELSE st.log_file.val

AskedFormat(st) == IF st.log_format.isNone THEN DefaultFormat ELSE st.log_format.val

AskedHandlers(st) ==
    << [kind |-> "stream", path |-> <<>>, fmt |-> AskedFormat(st)],
       IF AskedPath(st) # <<>>
       THEN [kind |-> "file", path |-> AskedPath(st), fmt |-> AskedFormat(st)]
       ELSE [kind |-> "null", path |-> <<>>, fmt |-> AskedFormat(st)] >>

Returned == lastSetup.called /\ lastSetup.outcome = "returned"

IsLogger(n) == n \in DOMAIN loggerDict /\ loggerDict[n].isLogger

-----------------------------------------------------------------------------
(* C1 as stated: a wrapped function that returns V makes the wrapper return *)
(* V and emit exactly two info lines (start, success) and no error line, in *)
(* every logging configuration.                                             *)
C1_AsStated ==
    (Ended /\ cur.body.kind = "return") =>
        /\ result.kind = "return" /\ result.value = cur.body.value
        /\ SaidAll(LastLines) = << Entry(cur, INFO, CallingMsg(cur)),
                                   Entry(cur, INFO, CompletedMsg(cur)) >>

(* C1 amended: the wrapper returns V in every configuration and makes       *)
(* exactly two info-level logging calls, the start call before the function *)
(* runs and the success call after it returns, and no error call; a call    *)
(* becomes a line only if the logger's effective level is INFO or lower     *)
(* when it is made, so two info lines are emitted then and none when        *)
(* setup_logging was never called.                                          *)
C1_Amended ==
    /\ pc = "in_func" => SaidAll(calls) = << Entry(cur, INFO, CallingMsg(cur)) >>
    /\ (Ended /\ cur.body.kind = "return") =>
        /\ result.kind = "return" /\ result.value = cur.body.value
        /\ SaidAll(calls) = << Entry(cur, INFO, CallingMsg(cur)),
                               Entry(cur, INFO, CompletedMsg(cur)) >>
        /\ LinesAreEnabledCalls
        /\ (\A i \in DOMAIN calls : calls[i].effective <= INFO)
              => SaidAll(LastLines) = SaidAll(calls)
        /\ ~lastSetup.called => LastLines = <<>>

C1_Witness ==
    /\ Ended /\ cur.body.kind = "return" /\ result.value = "V"
    /\ Len(LastLines) = 2 /\ rootLevel = DEBUG

(* C2 as stated: a wrapped function that raises E makes the wrapper emit    *)
(* one info line and one error line containing E's message, no completed    *)
(* line, and E itself propagates.                                           *)
C2_AsStated ==
    (Ended /\ cur.body.kind = "raise" /\ cur.body.exc.isException) =>
        /\ result.kind = "raise" /\ result.exc = cur.body.exc
        /\ Len(LastLines) = 2
        /\ Said(LastLines[1]) = Entry(cur, INFO, CallingMsg(cur))
        /\ LastLines[2].levelno = ERROR /\ Contains(LastLines[2].msg, cur.body.exc.msg)

(* C2 amended: for a function raising an Exception E the wrapper makes one  *)
(* info call (start) and one error call whose message contains E's message, *)
(* no completed call, and E itself propagates; each call becomes a line     *)
(* only if the logger's effective level admits it when the call is made.    *)
C2_Amended ==
    (Ended /\ cur.body.kind = "raise" /\ cur.body.exc.isException) =>
        /\ result.kind = "raise" /\ result.exc = cur.body.exc
        /\ Len(calls) = 2
        /\ Said(calls[1]) = Entry(cur, INFO, CallingMsg(cur))
        /\ calls[2].levelno = ERROR /\ calls[2].name = LoggerName(cur.module)
        /\ Contains(calls[2].msg, cur.body.exc.msg)
        /\ \A i \in DOMAIN calls : calls[i].msg # CompletedMsg(cur)
        /\ LinesAreEnabledCalls
        /\ (\A i \in DOMAIN calls : calls[i].effective <= INFO) => Len(LastLines) = 2
        /\ ~lastSetup.called => SaidAll(LastLines) = << Said(calls[2]) >>

C2_Witness ==
    /\ Ended /\ cur.body.kind = "raise" /\ result.exc = ValueError
    /\ Len(LastLines) = 2 /\ LastLines[2].levelno = ERROR

(* C9 as stated: for every kind of raised failure, KeyboardInterrupt and    *)
(* SystemExit included, the wrapper emits an error line for it and the call *)
(* ends with that same failure.                                             *)
C9_AsStated ==
    (Ended /\ cur.body.kind = "raise") =>
        /\ result.kind = "raise" /\ result.exc = cur.body.exc
        /\ \E i \in DOMAIN calls :
              calls[i].levelno = ERROR /\ Contains(calls[i].msg, cur.body.exc.msg)

(* C9 amended: every failure of the wrapped function ends the call with     *)
(* that same failure, never a normal return; the error call is made exactly *)
(* for failures in the Exception hierarchy, and a failure outside it passes *)
(* through with no error call.                                              *)
C9_Amended ==
    (Ended /\ cur.body.kind = "raise") =>
        /\ result.kind = "raise" /\ result.exc = cur.body.exc
        /\ (\E i \in DOMAIN calls : calls[i].levelno = ERROR) <=> cur.body.exc.isException
        /\ ~cur.body.exc.isException =>
              SaidAll(calls) = << Entry(cur, INFO, CallingMsg(cur)) >>

C9_Witness ==
    /\ Ended /\ result.kind = "raise" /\ result.exc = KeyboardInterrupt
    /\ Len(calls) = 1 /\ rootLevel = INFO /\ Len(LastLines) = 1

-----------------------------------------------------------------------------
(* C3 as stated: for each of the five level names, in any letter case and   *)
(* after any earlier setup_logging calls, the logger setup_logging returns  *)
(* has effective level L.                                                   *)
C3_AsStated ==
    (Returned /\ IsFiveLevel(lastSetup.log_level)) =>
        EffectiveLevel(loggerDict, rootLevel, lastSetup.logger)
            = AskedLevel(lastSetup.log_level)

(* C3 amended: a call with one of the five level names, in any letter case, *)
(* never fails on the level lookup; the returned logger has effective level *)
(* L when the root logger had no handlers at the call, and otherwise keeps  *)
(* the level it had before the call.                                        *)
C3_Amended ==
    (lastSetup.called /\ IsFiveLevel(lastSetup.log_level)) =>
        /\ lastSetup.outcome # "AttributeError"
        /\ (~lastSetup.hadHandlers /\ ValidFormat(AskedFormat(lastSetup)))
              => lastSetup.outcome = "returned"
        /\ lastSetup.outcome = "returned" =>
              /\ lastSetup.logger = SupermarketSales /\ IsLogger(SupermarketSales)
              /\ EffectiveLevel(loggerDict, rootLevel, lastSetup.logger)
                    = IF lastSetup.hadHandlers THEN lastSetup.before.level
                      ELSE AskedLevel(lastSetup.log_level)

C3_Witness ==
    /\ Returned /\ ~lastSetup.hadHandlers
    /\ lastSetup.log_level = <<"c","r","i","t","i","c","a","l">>
    /\ EffectiveLevel(loggerDict, rootLevel, SupermarketSales) = CRITICAL

C5_AsStated ==
    (Returned /\ LevelArg(lastSetup.log_level).isInt) =>
        /\ rootHandlers = AskedHandlers(lastSetup)
        /\ rootLevel = AskedLevel(lastSetup.log_level)

(* C5 amended: that holds for a returning call made while the root logger   *)
(* has no handlers; a call made when it has handlers leaves the handlers    *)
(* and the level as they were.                                              *)
C5_Amended ==
    (Returned /\ LevelArg(lastSetup.log_level).isInt) =>
        IF lastSetup.hadHandlers
        THEN /\ rootHandlers = lastSetup.before.handlers
             /\ rootLevel = lastSetup.before.level
        ELSE /\ rootHandlers = AskedHandlers(lastSetup)
             /\ rootLevel = AskedLevel(lastSetup.log_level)

C5_Witness ==
    /\ Returned /\ ~lastSetup.hadHandlers
    /\ lastSetup.log_file = Some(<<>>) /\ lastSetup.log_format = Some(CustomFormat)
    /\ Len(rootHandlers) = 2 /\ rootHandlers[2].kind = "null"
    /\ rootHandlers[1].fmt = CustomFormat

C8_ConsoleOnly ==
    (Returned /\ lastSetup.log_file.isNone) =>
        /\ ~lastSetup.hadHandlers => \A i \in DOMAIN rootHandlers : rootHandlers[i].kind # "file"
        /\ ~lastSetup.hadFile => DefaultLogFile \notin DOMAIN fileOut

(* C10: once a setup_logging call has returned, every later call leaves the *)
(* handlers, the level and the format as they were, and two handlers stay   *)
(* installed.                                                               *)
C10_ConfiguredOnce ==
    /\ configured => Len(rootHandlers) = 2
    /\ (lastSetup.called /\ lastSetup.wasConfigured) =>
          /\ rootHandlers = lastSetup.before.handlers
          /\ rootLevel = lastSetup.before.level

C10_Witness ==
    /\ Returned /\ lastSetup.wasConfigured
    /\ lastSetup.log_level = <<"D","E","B","U","G">> /\ rootLevel = ERROR
    /\ lastSetup.log_file = Some(CustomLogFile) /\ rootHandlers[2].kind = "null"
    /\ lastSetup.log_format = Some(CustomFormat) /\ rootHandlers[1].fmt = DefaultFormat

-----------------------------------------------------------------------------
(* What get_logger and the wrapper do with names: the logger returned is   *)
(* named "supermarket_sales." + name and is registered; every registered    *)
(* logger but the package logger carries the prefix; the wrapper's logging  *)
(* calls and lines are on get_logger(<function's module>).                  *)
NamedByGetLogger ==
    /\ lastGet.called =>
          /\ lastGet.logger = SupermarketSales \o <<".">> \o lastGet.name
          /\ IsLogger(lastGet.logger)
    /\ \A n \in DOMAIN loggerDict : (loggerDict[n].isLogger /\ n # SupermarketSales) =>
          /\ Len(n) > Len(SupermarketSales)
          /\ SubSeq(n, 1, Len(SupermarketSales) + 1) = SupermarketSales \o <<".">>
    /\ pc = "in_func" \/ Ended =>
          /\ IsLogger(SupermarketSales \o <<".">> \o cur.module)
          /\ \A i \in DOMAIN calls : calls[i].name = SupermarketSales \o <<".">> \o cur.module
          /\ \A i \in DOMAIN LastLines :
                LastLines[i].name = SupermarketSales \o <<".">> \o cur.module

(* Once the logger setup_logging returns exists, it is on n's parent chain *)
DescendsFromPackage(n) ==
    IsLogger(SupermarketSales) => SupermarketSales \in Ancestors(loggerDict, n)

(* The component name of logger n begins with a dot *)
BeginsWithDot(n) ==
    Len(n) > Len(SupermarketSales) + 1 /\ n[Len(SupermarketSales) + 2] = "."

(* C7 as stated: get_logger(name) returns the logger named exactly          *)
(* "supermarket_sales." + name for every name, empty and dotted included;   *)
(* that logger is a descendant of the logger setup_logging returns; the     *)
(* wrapper logs on get_logger(<function's module>).                         *)
C7_AsStated ==
    /\ NamedByGetLogger
    /\ \A n \in DOMAIN loggerDict : (loggerDict[n].isLogger /\ n # SupermarketSales) =>
          DescendsFromPackage(n)

(* C7 amended: the same, with the descent from the logger setup_logging     *)
(* returns claimed for the component names that do not begin with a dot.    *)
C7_Amended ==
    /\ NamedByGetLogger
    /\ \A n \in DOMAIN loggerDict :
          (loggerDict[n].isLogger /\ n # SupermarketSales /\ ~BeginsWithDot(n)) =>
              DescendsFromPackage(n)

C7_Witness ==
    /\ lastGet.called /\ lastGet.name = <<>>
    /\ IsLogger(SupermarketSales)
    /\ IsLogger(LoggerName(<<"a",".","b">>))
    /\ loggerDict[LoggerName(<<"a",".","b">>)].parent = SupermarketSales
    /\ loggerDict[LoggerName(<<>>)].parent = SupermarketSales
    /\ Ended

====
